---- MODULE Spec2Model ----
(***************************************************************************)
(* Model of DualHashSet (src/src/hash.rs): a HashMap<T::Key, T> whose      *)
(* values carry their own key, with the closure-based mutation protocol    *)
(* (modify / modify_all / retain) and the DualHashSetRef guard returned by *)
(* get_mut / get_or_insert_with, which relocates its value on drop.        *)
(***************************************************************************)
EXTENDS Integers, Sequences, FiniteSets, TLC

\* Bounds of the model.
NumValues == 2
MaxId == 3

\* T::Key: the keys in use (String in the tests of the source).
Keys == {"a", "b", "c"}
NoKey == ""
Values == 0..(NumValues - 1)
\* `id` is the identity of a value of type T: no operation of the set
\* writes it, so it tells which value is which after keys have changed.
Ids == 1..MaxId

\* A value of type T: Dual (the test type `Test { key, value }` plus identity).
Elems == [id : Ids, key : Keys, value : Values]

\* Option<X>: None is the empty sequence, Some(x) is <<x>>.
None == << >>
Some(x) == <<x>>

VARIABLES
    set,       \* DualHashSet.0 : HashMap<T::Key, T>, a function slot key -> value
    guard,     \* the live DualHashSetRef's remembered key: None or Some(key)
    acq,       \* history: the map as it was when the live guard was acquired
    panicked,  \* an unwrap()/expect() has failed
    last       \* history: the last completed call, its arguments and its result

vars == <<set, guard, acq, panicked, last>>

----------------------------------------------------------------------------
\* Dual::key
Dual_key(value) == value.key

\* std HashMap as used by the set.
hm_contains_key(m, k) == k \in DOMAIN m
hm_get(m, k) == IF k \in DOMAIN m THEN Some(m[k]) ELSE None
hm_insert(m, k, v) == [x \in (DOMAIN m) \cup {k} |-> IF x = k THEN v ELSE m[x]]
hm_remove(m, k) == [x \in (DOMAIN m) \ {k} |-> m[x]]
EmptyMap == [x \in {} |-> 0]

\* The number of values the tests insert: `for i in 0..10`.
ScenarioSize == 10

\* i.to_string() / format!("{}", i) of an unsigned integer: its decimal digits.
Digit(d) == <<"0", "1", "2", "3", "4", "5", "6", "7", "8", "9">>[d + 1]
RECURSIVE to_string(_)
to_string(i) == IF i < 10 THEN Digit(i) ELSE to_string(i \div 10) \o Digit(i % 10)

\* The closures of the tests, by name, applied to the value they are handed:
\* |test| test.value += 1, |test| test.key = "four".into(), and the mutation
\* of the retain test, test.key = format!("{}{}", test.value, test.value).
TestClosure(name, value) ==
    CASE name = "increment_value" -> [value EXCEPT !.value = @ + 1]
      [] name = "set_key_four" -> [value EXCEPT !.key = "four"]
      [] name = "double_key_keep_even" ->
             [value EXCEPT !.key = to_string(value.value) \o to_string(value.value)]

\* What the retain test's closure answers: test.value % 2 == 0.
TestKeep(name, value) == name = "double_key_keep_even" /\ value.value % 2 = 0

\* What a caller's closure does to the value it is handed: it sets the key
\* field and adds `bump` to the value field; or it is one of the closures of
\* the tests, [test |-> name].
Mutations == [key : Keys, bump : Values]
Mutate(value, f) ==
    IF "test" \in DOMAIN f
    THEN TestClosure(f.test, value)
    ELSE [value EXCEPT !.key = f.key, !.value = (value.value + f.bump) % NumValues]

----------------------------------------------------------------------------
\* DualHashSet::len, contains, get
len(s) == Cardinality(DOMAIN s)
contains(s, k) == hm_contains_key(s, k)
get(s, k) == hm_get(s, k)

\* insert that leaves an occupied slot as it is.
insert_no_displace(s, value) ==
    [set |-> IF hm_contains_key(s, Dual_key(value)) THEN s
             ELSE hm_insert(s, Dual_key(value), value),
     res |-> hm_get(s, Dual_key(value))]

\* DualHashSet::insert: files the value under value.key(), returns the occupant.
insert(s, value) ==
    [set |-> hm_insert(s, Dual_key(value), value), res |-> hm_get(s, Dual_key(value))]

\* DualHashSet::remove
remove(s, k) == [set |-> hm_remove(s, k), res |-> hm_get(s, k)]

\* modify that never moves the value it has changed.
modify_stale(s, k, f) ==
    IF hm_contains_key(s, k)
    THEN [set |-> [s EXCEPT ![k] = Mutate(s[k], f)],
          res |-> Some(Mutate(s[k], f).value), calls |-> 1]
    ELSE [set |-> s, res |-> None, calls |-> 0]

\* modify that files the value under its new key and leaves the old slot.
modify_keep_old(s, k, f) ==
    IF hm_contains_key(s, k)
    THEN [set |-> hm_insert(s, Dual_key(Mutate(s[k], f)), Mutate(s[k], f)),
          res |-> Some(Mutate(s[k], f).value), calls |-> 1]
    ELSE [set |-> s, res |-> None, calls |-> 0]

\* modify that hands f a copy of the value and stores nothing of what f did
\* unless the key changed.
modify_on_copy(s, k, f) ==
    IF hm_contains_key(s, k)
    THEN [set |-> IF Dual_key(Mutate(s[k], f)) # k
                  THEN hm_insert(hm_remove(s, k), Dual_key(Mutate(s[k], f)),
                                 Mutate(s[k], f))
                  ELSE s,
          res |-> Some(Mutate(s[k], f).value), calls |-> 1]
    ELSE [set |-> s, res |-> None, calls |-> 0]

\* DualHashSet::modify. res is Option<R>; R is the value field f leaves.
modify(s, k, f) ==
    IF hm_contains_key(s, k)
    THEN LET value == Mutate(s[k], f)
             s1 == [s EXCEPT ![k] = value]
             new_key == Dual_key(value)
         IN  IF new_key # k
             THEN [set |-> hm_insert(hm_remove(s1, k), new_key, value),
                   res |-> Some(value.value), calls |-> 1]
             ELSE [set |-> s1, res |-> Some(value.value), calls |-> 1]
    ELSE [set |-> s, res |-> None, calls |-> 0]

\* A retain predicate, a function of the value it is handed: it rewrites the
\* key by g, adds one to the value field, and answers keep iff the key it
\* found is one of `keep`.
Predicates == [g : [Keys -> Keys], keep : SUBSET Keys]
PredMutation(p, value) ==
    IF "test" \in DOMAIN p
    THEN p
    ELSE [key |-> p.g[value.key], bump |-> 1 % NumValues]
\* The predicate's answer for the value it was handed.
PredKeep(p, value) ==
    IF "test" \in DOMAIN p
    THEN TestKeep(p.test, value)
    ELSE Dual_key(value) \in p.keep

\* The loop of retain that moves no kept value: it removes only on drop.
RECURSIVE RetainLoop_no_move(_, _, _, _)
RetainLoop_no_move(s, ks, p, log) ==
    IF ks = << >>
    THEN [set |-> s, log |-> log, panic |-> FALSE]
    ELSE LET k == Head(ks)
         IN  IF ~hm_contains_key(s, k)
             THEN [set |-> s, log |-> log, panic |-> TRUE]
             ELSE LET old == s[k]
                      value == Mutate(old, PredMutation(p, old))
                      keep == PredKeep(p, old)
                      s1 == [s EXCEPT ![k] = value]
                      s2 == IF ~keep THEN hm_remove(s1, k) ELSE s1
                      entry == [slot |-> k, id |-> old.id, keep |-> keep,
                                out |-> value]
                  IN  RetainLoop_no_move(s2, Tail(ks), p, Append(log, entry))

\* The loop of retain with the removal made by the value's new key instead
\* of the snapshot key.
RECURSIVE RetainLoop_remove_new(_, _, _, _)
RetainLoop_remove_new(s, ks, p, log) ==
    IF ks = << >>
    THEN [set |-> s, log |-> log, panic |-> FALSE]
    ELSE LET k == Head(ks)
         IN  IF ~hm_contains_key(s, k)
             THEN [set |-> s, log |-> log, panic |-> TRUE]
             ELSE LET old == s[k]
                      value == Mutate(old, PredMutation(p, old))
                      keep == PredKeep(p, old)
                      s1 == [s EXCEPT ![k] = value]
                      moves == ~keep \/ Dual_key(value) # k
                      r == hm_remove(s1, Dual_key(value))
                      s2 == IF moves
                            THEN IF keep
                                 THEN hm_insert(r, Dual_key(value), value)
                                 ELSE r
                            ELSE s1
                      entry == [slot |-> k, id |-> old.id, keep |-> keep,
                                out |-> value]
                  IN  IF moves /\ ~hm_contains_key(s1, Dual_key(value))
                      THEN [set |-> s1, log |-> Append(log, entry), panic |-> TRUE]
                      ELSE RetainLoop_remove_new(s2, Tail(ks), p,
                                                 Append(log, entry))

\* The loop of DualHashSet::retain over the remaining snapshot keys.
\* log: one entry per call of the predicate.
RECURSIVE RetainLoop(_, _, _, _)
RetainLoop(s, ks, p, log) ==
    IF ks = << >>
    THEN [set |-> s, log |-> log, panic |-> FALSE]
    ELSE LET k == Head(ks)
         IN  IF ~hm_contains_key(s, k)
             THEN [set |-> s, log |-> log, panic |-> TRUE]
             ELSE LET old == s[k]
                      value == Mutate(old, PredMutation(p, old))
                      keep == PredKeep(p, old)
                      s1 == [s EXCEPT ![k] = value]
                      s2 == IF ~keep \/ Dual_key(value) # k
                            THEN LET r == hm_remove(s1, k)
                                 IN  IF keep
                                     THEN hm_insert(r, Dual_key(value), value)
                                     ELSE r
                            ELSE s1
                      entry == [slot |-> k, id |-> old.id, keep |-> keep,
                                out |-> value]
                  IN  RetainLoop(s2, Tail(ks), p, Append(log, entry))

\* DualHashSet::keys collected: the key() of every stored value, in the
\* order `order` in which the map yields its slots.
keys(s, order) == [i \in 1..Len(order) |-> Dual_key(s[order[i]])]

\* The orders in which a HashMap may yield its entries.
Orders(s) ==
    {o \in [1..Cardinality(DOMAIN s) -> DOMAIN s] :
        \A i, j \in 1..Cardinality(DOMAIN s) : i # j => o[i] # o[j]}

\* DualHashSet::retain
retain(s, order, p) == RetainLoop(s, keys(s, order), p, << >>)

\* DualHashSet::modify_all: retain with a predicate that always keeps.
modify_all(s, order, g) == retain(s, order, [g |-> g, keep |-> Keys])

\* get_mut that hands out a guard whether or not the key is stored.
get_mut_always(s, k) == Some(k)

\* DualHashSet::get_mut: Option<DualHashSetRef>, the guard's remembered key.
get_mut(s, k) ==
    IF get(s, k) # None THEN Some(Dual_key(s[k])) ELSE None

\* DualHashSet::get_or_insert_with: made is what the factory returns.
get_or_insert_with(s, k, made) ==
    IF ~contains(s, k)
    THEN [set |-> insert(s, made).set, guard |-> Some(k), calls |-> 1]
    ELSE [set |-> s, guard |-> Some(k), calls |-> 0]

\* Deref / DerefMut for DualHashSetRef: the entry at the remembered key,
\* None standing for the failed unwrap().
deref(s, gk) == hm_get(s, gk)

\* drop that removes the old slot and files the value nowhere.
drop_lose(s, gk) ==
    IF deref(s, gk) = None
    THEN [set |-> s, panic |-> TRUE]
    ELSE [set |-> IF Dual_key(s[gk]) # gk THEN hm_remove(s, gk) ELSE s,
          panic |-> FALSE]

\* drop that files the value under its new key and leaves the old slot.
drop_keep_old(s, gk) ==
    IF deref(s, gk) = None
    THEN [set |-> s, panic |-> TRUE]
    ELSE [set |-> hm_insert(s, Dual_key(s[gk]), s[gk]), panic |-> FALSE]

\* Drop for DualHashSetRef
drop(s, gk) ==
    IF deref(s, gk) = None
    THEN [set |-> s, panic |-> TRUE]
    ELSE LET new_key == Dual_key(s[gk])
         IN  IF new_key # gk
             THEN [set |-> hm_insert(hm_remove(s, gk), new_key, s[gk]),
                   panic |-> FALSE]
             ELSE [set |-> s, panic |-> FALSE]

\* index that answers a missing key without a panic.
index_quiet(s, k) == [res |-> get(s, k), panic |-> FALSE]

\* Index<&Q> for DualHashSet: get(key).expect("key not found").
index(s, k) == [res |-> get(s, k), panic |-> get(s, k) = None]

----------------------------------------------------------------------------
\* The record of a completed call.
Call(op, k, arg, pre, res, calls, log) ==
    [op |-> op, key |-> k, arg |-> arg, pre |-> pre, res |-> res,
     calls |-> calls, log |-> log]

StoredIds(s) == {s[k].id : k \in DOMAIN s}

\* No call is on record: the caller is about to make its next call.
NoCall == Call("none", NoKey, None, EmptyMap, None, 0, << >>)
Ready == last = NoCall /\ ~panicked

\* The caller holds the set itself: no guard borrows it.
Free == Ready /\ guard = None

\* A guard is live: the set is reachable only through it.
Held == Ready /\ guard # None

\* The shape of the state: the map holds values of T under keys of T::Key, and
\* at most one guard is live.
TypeOK ==
    /\ DOMAIN set \subseteq Keys
    /\ \A k \in DOMAIN set : set[k] \in Elems
    /\ guard = None \/ (Len(guard) = 1 /\ guard[1] \in Keys)
    /\ panicked \in BOOLEAN

Init ==
    /\ set = EmptyMap
    /\ guard = None
    /\ acq = EmptyMap
    /\ panicked = FALSE
    /\ last = NoCall

Insert ==
    /\ Free
    /\ \E value \in Elems :
        /\ value.id \notin StoredIds(set)
        /\ set' = insert(set, value).set
        /\ last' = Call("insert", Dual_key(value), Some(value), set,
                        insert(set, value).res, 0, << >>)
    /\ UNCHANGED <<guard, acq, panicked>>

Remove ==
    /\ Free
    /\ \E k \in Keys :
        /\ set' = remove(set, k).set
        /\ last' = Call("remove", k, None, set, remove(set, k).res, 0, << >>)
    /\ UNCHANGED <<guard, acq, panicked>>

Clear ==
    /\ Free
    /\ set' = EmptyMap
    /\ last' = Call("clear", NoKey, None, set, None, 0, << >>)
    /\ UNCHANGED <<guard, acq, panicked>>

Get ==
    /\ Free
    /\ \E k \in Keys :
        last' = Call("get", k, None, set, get(set, k), 0, << >>)
    /\ UNCHANGED <<set, guard, acq, panicked>>

Modify ==
    /\ Free
    /\ \E k \in Keys, f \in Mutations :
        /\ set' = modify(set, k, f).set
        /\ last' = Call("modify", k, Some(f), set, modify(set, k, f).res,
                        modify(set, k, f).calls, << >>)
    /\ UNCHANGED <<guard, acq, panicked>>

ModifyAll ==
    /\ Free
    /\ \E order \in Orders(set), g \in [Keys -> Keys] :
        LET r == modify_all(set, order, g)
        IN  /\ set' = r.set
            /\ panicked' = r.panic
            /\ last' = Call("modify_all", NoKey, Some([g |-> g, keep |-> Keys]), set,
                            None, Len(r.log), r.log)
    /\ UNCHANGED <<guard, acq>>

Retain ==
    /\ Free
    /\ \E order \in Orders(set), p \in Predicates :
        LET r == retain(set, order, p)
        IN  /\ set' = r.set
            /\ panicked' = r.panic
            /\ last' = Call("retain", NoKey, Some(p), set, None, Len(r.log), r.log)
    /\ UNCHANGED <<guard, acq>>

GetMut ==
    /\ Free
    /\ \E k \in Keys :
        /\ guard' = get_mut(set, k)
        /\ acq' = IF get_mut(set, k) # None THEN set ELSE EmptyMap
        /\ last' = Call("get_mut", k, None, set, get_mut(set, k), 0, << >>)
    /\ UNCHANGED <<set, panicked>>

GetOrInsertWith ==
    /\ Free
    /\ \E k \in Keys, made \in Elems :
        /\ made.id \notin StoredIds(set)
        /\ LET r == get_or_insert_with(set, k, made)
           IN  /\ set' = r.set
               /\ guard' = r.guard
               /\ acq' = r.set
               /\ last' = Call("get_or_insert_with", k, Some(made), set,
                               r.guard, r.calls, << >>)
    /\ UNCHANGED panicked

\* A read through the live guard.
Deref ==
    /\ Held
    /\ panicked' = (deref(set, guard[1]) = None)
    /\ last' = Call("deref", guard[1], None, set, deref(set, guard[1]), 0, << >>)
    /\ UNCHANGED <<set, guard, acq>>

\* A write through the live guard.
DerefMut ==
    /\ Held
    /\ \E f \in Mutations :
        IF deref(set, guard[1]) = None
        THEN /\ panicked' = TRUE
             /\ set' = set
             /\ last' = Call("deref_mut", guard[1], Some(f), set, None, 0, << >>)
        ELSE /\ panicked' = FALSE
             /\ set' = [set EXCEPT ![guard[1]] = Mutate(@, f)]
             /\ last' = Call("deref_mut", guard[1], Some(f), set,
                             Some(Mutate(set[guard[1]], f)), 1, << >>)
    /\ UNCHANGED <<guard, acq>>

\* The guard goes out of scope.
Drop ==
    /\ Held
    /\ set' = drop(set, guard[1]).set
    /\ panicked' = drop(set, guard[1]).panic
    /\ guard' = IF drop(set, guard[1]).panic THEN guard ELSE None
    /\ acq' = IF drop(set, guard[1]).panic THEN acq ELSE EmptyMap
    /\ last' = Call("drop", guard[1], Some(acq), set, None, 0, << >>)

\* set[key]: on a missing key the call panics with "key not found".
Index ==
    /\ Free
    /\ \E k \in Keys :
        /\ panicked' = index(set, k).panic
        /\ last' = Call("index", k,
                        IF index(set, k).panic THEN Some("key not found") ELSE None,
                        set, index(set, k).res, 0, << >>)
    /\ UNCHANGED <<set, guard, acq>>

\* The caller has looked at what the call returned and goes on.
Continue ==
    /\ last # NoCall /\ ~panicked
    /\ last' = NoCall
    /\ UNCHANGED <<set, guard, acq, panicked>>

Next ==
    \/ Insert
    \/ Remove
    \/ Clear
    \/ Get
    \/ Modify
    \/ ModifyAll
    \/ Retain
    \/ GetMut
    \/ GetOrInsertWith
    \/ Deref
    \/ DerefMut
    \/ Drop
    \/ Index
    \/ Continue

Spec == Init /\ [][Next]_vars

----------------------------------------------------------------------------
----------------------------------------------------------------------------
\* The scenario of the tests: ten values Test { key: i.to_string(), value: i },
\* then modify("3", increment value), modify("4", set key to "four"), then the
\* retain of the retain test.
ScenarioValue(i) == [id |-> i + 1, key |-> to_string(i), value |-> i]

\* Nothing but inserted values are stored: no modify of the scenario has run.
ScenarioFresh ==
    \A k \in DOMAIN set :
        \E i \in 0..(ScenarioSize - 1) : set[k] = ScenarioValue(i)

ScInsert ==
    /\ Free
    /\ ScenarioFresh
    /\ \E i \in 0..(ScenarioSize - 1) :
        /\ ~contains(set, to_string(i))
        /\ set' = insert(set, ScenarioValue(i)).set
        /\ last' = Call("insert", to_string(i), Some(ScenarioValue(i)), set,
                        insert(set, ScenarioValue(i)).res, 0, << >>)
    /\ UNCHANGED <<guard, acq, panicked>>

ScModify3 ==
    /\ Free
    /\ ScenarioFresh
    /\ len(set) = ScenarioSize
    /\ LET r == modify(set, "3", [test |-> "increment_value"])
       IN  /\ set' = r.set
           /\ last' = Call("modify", "3", Some([test |-> "increment_value"]),
                           set, r.res, r.calls, << >>)
    /\ UNCHANGED <<guard, acq, panicked>>

ScModify4 ==
    /\ Free
    /\ len(set) = ScenarioSize
    /\ contains(set, "3") /\ set["3"].value = 4
    /\ contains(set, "4")
    /\ LET r == modify(set, "4", [test |-> "set_key_four"])
       IN  /\ set' = r.set
           /\ last' = Call("modify", "4", Some([test |-> "set_key_four"]),
                           set, r.res, r.calls, << >>)
    /\ UNCHANGED <<guard, acq, panicked>>

\* The closure of the retain test.
RetainTestClosure == [test |-> "double_key_keep_even"]

\* retain of the set s0 taken one visit further, when the map yields `slot`
\* next: x is what the loop has made of the set so far, with the slots the
\* map has not yet yielded (left), the calls of the predicate made so far as
\* a set (calls) and their number (n). The snapshot key of the slot is the
\* key() of the value s0 holds there.
RetainVisit(x, s0, slot, p) ==
    IF x.panic
    THEN [x EXCEPT !.left = @ \ {slot}]
    ELSE LET r == RetainLoop(x.set, <<Dual_key(s0[slot])>>, p, << >>)
         IN  [set |-> r.set,
              calls |-> x.calls \cup {r.log[i] : i \in 1..Len(r.log)},
              n |-> x.n + Len(r.log),
              panic |-> r.panic,
              left |-> x.left \ {slot}]

\* What retain can make of s0 when the map may yield its slots in any order
\* whatever: X holds the results of the loop for every beginning of every
\* order, of one length; the results for the beginnings one slot longer
\* are those of one more visit. Two beginnings that have made the same calls
\* and left the same set are one element of X.
RECURSIVE RetainOutcomes(_, _, _)
RetainOutcomes(X, s0, p) ==
    IF \A x \in X : x.left = {}
    THEN X
    ELSE RetainOutcomes(
             UNION {{RetainVisit(x, s0, slot, p) : slot \in x.left} : x \in X},
             s0, p)

\* The retain of the tests, straight after the ten inserts (the retain test)
\* or after the two modifies, the ten slots in any order. The record of the
\* call holds the calls of the predicate as a set: their order is the order
\* of the map and is not recorded.
ScRetain ==
    /\ Free
    /\ len(set) = ScenarioSize
    /\ ScenarioFresh \/ contains(set, "four")
    /\ \E x \in RetainOutcomes({[set |-> set, calls |-> {}, n |-> 0,
                                   panic |-> FALSE, left |-> DOMAIN set]},
                                 set, RetainTestClosure) :
        /\ set' = x.set
        /\ panicked' = x.panic
        /\ last' = Call("retain", NoKey, Some(RetainTestClosure), set,
                        None, x.n, x.calls)
    /\ UNCHANGED <<guard, acq>>

NextScenario ==
    \/ ScInsert
    \/ ScModify3
    \/ ScModify4
    \/ ScRetain
    \/ Continue

SpecScenario == Init /\ [][NextScenario]_vars

----------------------------------------------------------------------------
\* Index coherence of a map: every slot holds a value that reports the slot's
\* key, so get(e.key()) finds e.
Coherent(s) ==
    \A k \in DOMAIN s : Dual_key(s[k]) = k /\ get(s, Dual_key(s[k])) = Some(s[k])

\* C1: whenever no guard is live (every call made so far has completed, every
\* guard has been released), the set is index coherent, also after a value
\* has been moved onto a key another value occupied.
C1_IndexCoherence == guard = None => Coherent(set)

\* A modify has just moved a value onto a key that another value occupied.
C1_Witness ==
    /\ last.op = "modify" /\ guard = None /\ ~panicked
    /\ last.key \in DOMAIN last.pre
    /\ last.arg[1].key # last.key
    /\ last.arg[1].key \in DOMAIN last.pre
    /\ len(set) = 2

\* C2: insert(e) then get(e.key()) yields e; a previous occupant of that key
\* is returned and len is unchanged; without one, None is returned and len grows
\* by one; entries under other keys are unchanged.
C2_Insert ==
    last.op = "insert" =>
        LET e == last.arg[1]
            pre == last.pre
        IN  /\ get(set, Dual_key(e)) = Some(e)
            /\ IF contains(pre, Dual_key(e))
               THEN last.res = Some(pre[Dual_key(e)]) /\ len(set) = len(pre)
               ELSE last.res = None /\ len(set) = len(pre) + 1
            /\ \A k \in Keys \ {Dual_key(e)} : get(set, k) = get(pre, k)

\* An insert has displaced an occupant while another key was stored.
C2_Witness ==
    /\ last.op = "insert"
    /\ contains(last.pre, last.key)
    /\ last.res # None /\ last.res[1].id # last.arg[1].id
    /\ len(set) = 2

\* C3: modify(k, f) with f changing the key from k to k2 # k: afterwards k is
\* absent, k2 is present and holds the value that was at k with f applied, and
\* the call returns Some(result of f).
C3_ModifyMoves ==
    (/\ last.op = "modify"
     /\ contains(last.pre, last.key)
     /\ last.arg[1].key # last.key) =>
        LET k == last.key
            k2 == last.arg[1].key
            moved == Mutate(last.pre[k], last.arg[1])
        IN  /\ ~contains(set, k)
            /\ contains(set, k2)
            /\ get(set, k2) = Some(moved)
            /\ moved.id = last.pre[k].id
            /\ last.res = Some(moved.value)
            /\ last.calls = 1

\* A modify has changed a key and the value field of a stored value.
C3_Witness ==
    /\ last.op = "modify"
    /\ contains(last.pre, last.key)
    /\ last.arg[1].key # last.key
    /\ last.arg[1].bump = 1
    /\ contains(set, last.arg[1].key)

\* The mutation a guard has applied in all to the value it was acquired for:
\* from `was`, the value at acquisition, to `now`, the value at release.
GuardMutation(was, now) ==
    [key |-> Dual_key(now),
     bump |-> (now.value + NumValues - was.value) % NumValues]

\* C4: get_mut(k), a mutation m through the guard, and the release of the
\* guard leave the set exactly as modify(k, m) on the set at acquisition would;
\* if m changed the key to new_key # k, k is absent and new_key present.
C4_ReleaseAsModify ==
    (/\ last.op = "drop" /\ ~panicked
     /\ contains(last.arg[1], last.key)) =>
        LET k == last.key
            was == last.arg[1][k]
            now == last.pre[k]
            m == GuardMutation(was, now)
        IN  /\ guard = None
            /\ Mutate(was, m) = now
            /\ set = modify(last.arg[1], k, m).set
            /\ Dual_key(now) # k =>
                   ~contains(set, k) /\ get(set, Dual_key(now)) = Some(now)

\* A guard that changed both the key and the value field has been released,
\* while another key stayed stored.
C4_Witness ==
    /\ last.op = "drop" /\ ~panicked
    /\ contains(last.arg[1], last.key)
    /\ Dual_key(last.pre[last.key]) # last.key
    /\ last.pre[last.key].value # last.arg[1][last.key].value
    /\ len(set) = 2

\* C8: a lookup miss has no effect: get, remove, modify and get_mut of an
\* absent key return None, modify does not call f, the contents and len are
\* unchanged, no guard is handed out and nothing panics.
C8_MissIsNone ==
    (/\ last.op \in {"get", "remove", "modify", "get_mut"}
     /\ ~contains(last.pre, last.key)) =>
        /\ last.res = None
        /\ last.calls = 0
        /\ set = last.pre
        /\ len(set) = len(last.pre)
        /\ guard = None
        /\ ~panicked

\* A get_mut of an absent key has returned while other keys were stored.
C8_Witness ==
    /\ last.op = "get_mut"
    /\ ~contains(last.pre, last.key)
    /\ len(last.pre) = 2

\* The values the last call made leave the set, by identity.
Lost == StoredIds(last.pre) \ StoredIds(set)

\* The predicate of the last retain answered drop for the value x.
Rejected(x) == \E i \in 1..Len(last.log) : last.log[i].id = x /\ ~last.log[i].keep

\* The value the last insert or get_or_insert_with displaced, if any.
Displaced ==
    IF last.op = "insert" \/ (last.op = "get_or_insert_with" /\ last.calls = 1)
    THEN {last.pre[k].id : k \in {Dual_key(last.arg[1])} \cap DOMAIN last.pre}
    ELSE {}

\* C9 as stated: a stored value leaves the set only by remove of its key,
\* clear, a retain predicate rejecting it, or an insert under its key.
C9_OnlyListedRemovals ==
    \A x \in Lost :
        \/ last.op = "remove" /\ last.pre[last.key].id = x
        \/ last.op = "clear"
        \/ last.op = "retain" /\ Rejected(x)
        \/ x \in Displaced

\* The keys under which the value x was filed before or during the last
\* retain / modify_all.
FiledUnder(x) ==
    {k \in DOMAIN last.pre : last.pre[k].id = x}
        \cup {Dual_key(last.log[i].out) : i \in {j \in 1..Len(last.log) :
                                                 last.log[j].id = x}}

\* The last call moved another value than x onto a key x was filed under.
Overwritten(x) ==
    \/ /\ last.op = "modify"
       /\ contains(last.pre, last.key)
       /\ last.pre[last.key].id # x
       /\ last.arg[1].key # last.key
       /\ contains(last.pre, last.arg[1].key)
       /\ last.pre[last.arg[1].key].id = x
    \/ /\ last.op = "drop"
       /\ contains(last.pre, last.key)
       /\ last.pre[last.key].id # x
       /\ Dual_key(last.pre[last.key]) # last.key
       /\ \E k \in DOMAIN last.pre :
              k # last.key /\ k = Dual_key(last.pre[last.key]) /\ last.pre[k].id = x
    \/ /\ last.op \in {"retain", "modify_all"}
       /\ \E i \in 1..Len(last.log) :
              /\ last.log[i].id # x
              /\ last.log[i].keep
              /\ Dual_key(last.log[i].out) # last.log[i].slot
              /\ Dual_key(last.log[i].out) \in FiledUnder(x)

\* C9 as amended: a stored value leaves the set only by remove of its key,
\* clear, a retain predicate rejecting it, an insert under its key, or the
\* relocation of another value onto its key by modify, modify_all, retain or
\* a guard release; the value a modify or a guard release relocates stays.
C9_RemovalsOrOverwrite ==
    /\ \A x \in Lost :
        \/ last.op = "remove" /\ last.pre[last.key].id = x
        \/ last.op = "clear"
        \/ last.op = "retain" /\ Rejected(x)
        \/ x \in Displaced
        \/ Overwritten(x)
    /\ (last.op \in {"modify", "drop"} /\ contains(last.pre, last.key) /\ ~panicked)
           => last.pre[last.key].id \in StoredIds(set)

\* A guard release has moved its value onto an occupied key: the occupant is
\* gone, the moved value is stored.
C9_Witness ==
    /\ last.op = "drop" /\ ~panicked
    /\ Lost # {}
    /\ last.pre[last.key].id \in StoredIds(set)
    /\ len(set) = 2

\* The values stored in a map.
Stored(s) == {s[k] : k \in DOMAIN s}

\* What one call of the predicate p makes of the value e.
PredOut(p, e) == Mutate(e, PredMutation(p, e))

\* C5 as stated: after retain(p) the set holds exactly the values p answered
\* keep for, each with p applied once and filed under its new key; the values
\* p answered drop for are absent; len is the number of values kept.
C5_RetainExact ==
    (last.op = "retain" /\ ~panicked) =>
        LET p == last.arg[1]
            kept == {e \in Stored(last.pre) : Dual_key(e) \in p.keep}
        IN  /\ Stored(set) = {PredOut(p, e) : e \in kept}
            /\ Coherent(set)
            /\ \A e \in Stored(last.pre) \ kept : e.id \notin StoredIds(set)
            /\ len(set) = Cardinality(kept)

\* C6 as stated: get_or_insert_with(k, factory) on an absent k calls the
\* factory once, grows len by one and returns a guard on the new value; on a
\* present k it does not call the factory, leaves the set alone and returns a
\* guard on the value at k.
C6_GetOrInsertWith ==
    last.op = "get_or_insert_with" =>
        IF ~contains(last.pre, last.key)
        THEN /\ last.calls = 1
             /\ len(set) = len(last.pre) + 1
             /\ guard # None
             /\ deref(set, guard[1]) = Some(last.arg[1])
        ELSE /\ last.calls = 0
             /\ set = last.pre
             /\ guard # None
             /\ deref(set, guard[1]) = Some(last.pre[last.key])

\* C7 as stated: the guard get_or_insert_with returns for an absent k and a
\* factory whose value reports another key can be read, written and released
\* without a panic, and its release leaves the value filed under its own key.
C7_MismatchTolerated ==
    /\ (last.op \in {"deref", "deref_mut"} /\ ~contains(acq, last.key)) =>
           ~panicked /\ last.res # None
    /\ (last.op = "drop" /\ ~contains(last.arg[1], last.key)) =>
           ~panicked /\ guard = None /\ Coherent(set)

\* f gives the stored values pairwise different keys, so that all of them can
\* be stored afterwards.
DistinctNewKeys(p, s) ==
    \A e1, e2 \in Stored(s) :
        e1 # e2 => Dual_key(PredOut(p, e1)) # Dual_key(PredOut(p, e2))

\* C10 as stated, for every f that gives the stored values pairwise different
\* keys: modify_all(f) applies f once to every stored value and removes none:
\* the set holds each value with f applied, under its new key, and len is
\* unchanged.
C10_ModifyAllExact ==
    (/\ last.op = "modify_all" /\ ~panicked
     /\ DistinctNewKeys(last.arg[1], last.pre)) =>
        /\ Stored(set) = {PredOut(last.arg[1], e) : e \in Stored(last.pre)}
        /\ Coherent(set)
        /\ len(set) = len(last.pre)

\* What a caller can see of a map: the key and value fields under each slot.
Contents(s) ==
    [k \in DOMAIN s |-> [key |-> Dual_key(s[k]), value |-> s[k].value]]

\* C11 as stated, for every predicate that gives the stored values pairwise
\* different keys: for the same contents and the same predicate, retain and
\* modify_all end with the same contents whatever the order in which the key
\* snapshot is visited.
C11_OrderIndependent ==
    (/\ last.op \in {"retain", "modify_all"} /\ ~panicked
     /\ DistinctNewKeys(last.arg[1], last.pre)) =>
        \A order \in Orders(last.pre) :
            Contents(retain(last.pre, order, last.arg[1]).set) = Contents(set)

\* C12: modify(k, f) with f leaving the key of the value at k as it is keeps the
\* set of keys and len, leaves every other entry as it was, and the value at k
\* is the old one with f applied.
C12_ModifyInPlace ==
    (/\ last.op = "modify"
     /\ contains(last.pre, last.key)
     /\ last.arg[1].key = last.key) =>
        /\ DOMAIN set = DOMAIN last.pre
        /\ len(set) = len(last.pre)
        /\ \A k \in Keys \ {last.key} : get(set, k) = get(last.pre, k)
        /\ get(set, last.key) = Some(Mutate(last.pre[last.key], last.arg[1]))
        /\ last.res = Some(Mutate(last.pre[last.key], last.arg[1]).value)

\* A modify has changed the value field, not the key, while another key was
\* stored.
C12_Witness ==
    /\ last.op = "modify"
    /\ contains(last.pre, last.key)
    /\ last.arg[1].key = last.key
    /\ set[last.key].value # last.pre[last.key].value
    /\ len(set) = 2

\* C13: indexing by key returns what get returns when the key is stored, and
\* panics with "key not found" exactly when it is not; it never changes the
\* set.
C13_Index ==
    last.op = "index" =>
        /\ panicked <=> ~contains(last.pre, last.key)
        /\ panicked <=> last.arg = Some("key not found")
        /\ ~panicked => last.res = get(last.pre, last.key) /\ last.res # None
        /\ set = last.pre

\* An index of a missing key has panicked while other keys were stored.
C13_Witness ==
    /\ last.op = "index"
    /\ panicked
    /\ len(set) = 2

\* An index of a stored key has returned its value.
C13_WitnessFound ==
    /\ last.op = "index"
    /\ ~panicked
    /\ last.res = Some(set[last.key])

\* C15 as stated: while a guard is live the value it was handed out for stays
\* stored in the slot of the remembered key, also after its key has been
\* changed through the guard; every read and write through the guard succeeds;
\* no other slot changes before the release; and only the guard's slot is ever
\* out of place.
C15_GuardSlotStable ==
    guard # None =>
        /\ contains(set, guard[1])
        /\ ~panicked
        /\ last.op \in {"deref", "deref_mut"} => last.res # None
        /\ \A k \in Keys \ {guard[1]} : get(set, k) = get(acq, k)
        /\ \A k \in DOMAIN set \ {guard[1]} : Dual_key(set[k]) = k

\* How often the predicate of the last retain / modify_all was handed the
\* value x.
Visits(x) == Cardinality({i \in 1..Len(last.log) : last.log[i].id = x})

\* C16 as stated: one retain hands every value stored at its start to the
\* predicate exactly once.
C16_VisitedOnce ==
    (last.op \in {"retain", "modify_all"} /\ ~panicked) =>
        /\ \A x \in StoredIds(last.pre) : Visits(x) = 1
        /\ last.calls = len(last.pre)

\* C17: from a coherent set, every key of the snapshot is occupied when retain
\* visits it: the unwrap()s of retain never fail, and the predicate is called
\* once per snapshot key, on the slot of that key.
C17_RetainNeverPanics ==
    last.op \in {"retain", "modify_all"} =>
        /\ ~panicked
        /\ last.calls = len(last.pre)
        /\ {last.log[i].slot : i \in 1..Len(last.log)} = DOMAIN last.pre
        /\ \A i \in 1..Len(last.log) : last.log[i].slot \in DOMAIN last.pre

\* A retain has moved a kept value onto a snapshot key it had not visited yet,
\* has visited that key afterwards and has completed.
C17_Witness ==
    /\ last.op = "retain" /\ ~panicked
    /\ len(last.pre) = 3
    /\ \E i, j \in 1..Len(last.log) :
           /\ i < j
           /\ last.log[i].keep
           /\ Dual_key(last.log[i].out) = last.log[j].slot
           /\ last.log[i].id = last.log[j].id

\* The relocation the last call made, if it made one: the slot it started
\* from, the value it moved and the map it moved it in.
Relocation ==
    IF /\ last.op = "modify"
       /\ contains(last.pre, last.key)
       /\ last.arg[1].key # last.key
    THEN Some([from |-> last.key, pre |-> last.pre,
               moved |-> Mutate(last.pre[last.key], last.arg[1])])
    ELSE IF /\ last.op = "drop" /\ ~panicked
            /\ contains(last.pre, last.key)
            /\ Dual_key(last.pre[last.key]) # last.key
         THEN Some([from |-> last.key, pre |-> last.pre,
                    moved |-> last.pre[last.key]])
         ELSE None

\* C18: when modify(k, f) or the release of a guard at k finds the key changed
\* to k2 # k, afterwards the moved value is stored at k2 and k is absent; if
\* another value was stored at k2 it is gone and len is one less, otherwise
\* len is unchanged; the entries at other keys are unchanged.
C18_RelocationReplaces ==
    Relocation # None =>
        LET r == Relocation[1]
            k2 == Dual_key(r.moved)
        IN  /\ get(set, k2) = Some(r.moved)
            /\ ~contains(set, r.from)
            /\ IF contains(r.pre, k2)
               THEN /\ r.pre[k2].id \notin StoredIds(set)
                    /\ len(set) = len(r.pre) - 1
               ELSE len(set) = len(r.pre)
            /\ \A k \in Keys \ {r.from, k2} : get(set, k) = get(r.pre, k)

\* A relocation has replaced the occupant of its target key while a third key
\* was stored and stayed as it was.
C18_Witness ==
    /\ Relocation # None
    /\ contains(Relocation[1].pre, Dual_key(Relocation[1].moved))
    /\ len(Relocation[1].pre) = 3
    /\ len(set) = 2

\* A guard release has moved its value onto a free key.
C18_WitnessFree ==
    /\ last.op = "drop"
    /\ Relocation # None
    /\ ~contains(Relocation[1].pre, Dual_key(Relocation[1].moved))
    /\ len(set) = 2

\* The key the retain test gives a value: its numeral twice.
Doubled(v) == to_string(v) \o to_string(v)

\* C14: in the scenario, after the two modifies, the retain that renames every
\* value to its doubled numeral and keeps the even ones leaves len() == 5,
\* every surviving key is the doubled numeral of an even value, and none of
\* the decimal-digit keys remains; whatever the order in which the map yields
\* its ten slots, and likewise for the retain made straight after the inserts.
C14_Scenario ==
    last.op = "retain" =>
        /\ ~panicked
        /\ len(set) = 5
        /\ \A k \in DOMAIN set :
               /\ set[k].value % 2 = 0
               /\ k = Doubled(set[k].value)
               /\ Dual_key(set[k]) = k
        /\ \A i \in 0..(ScenarioSize - 1) : ~contains(set, to_string(i))
        /\ ~contains(set, "four")

\* The retain of the scenario has run on the ten values left by the two
\* modifies: the values under "3" and "four" both had value 4 and one of them
\* is stored under "44".
C14_Witness ==
    /\ last.op = "retain"
    /\ len(last.pre) = ScenarioSize
    /\ contains(last.pre, "3") /\ contains(last.pre, "four")
    /\ last.pre["3"].value = 4 /\ last.pre["four"].value = 4
    /\ last.calls = ScenarioSize
    /\ DOMAIN set = {"00", "22", "44", "66", "88"}

====
